---- MODULE Spec2Model ----
(***************************************************************************)
(* Producer-consumer over a bounded ring buffer (lab1/producer_consumer.c). *)
(* One producer thread, N consumer threads, a shutdown watcher thread and  *)
(* the main thread share one ring_buffer_t protected by one mutex and two  *)
(* condition variables.                                                    *)
(***************************************************************************)
EXTENDS Integers, Sequences, FiniteSets

(* ---- bounds of the model ---- *)
MaxN == 2
MaxSize == 3
MaxValue == 3
\* the runs checked under fair scheduling: up to FairMaxN consumers, and the
\* <<capacity, last value>> pairs of FairShapes (capacity 1: the buffer is full
\* after every put and empty after every take, so both sides block)
FairMaxN == 2
FairShapes == {<<1, 2>>}

VARIABLES
    size, data, head, tail, count,      \* ring_buffer_t
    shutdown, produced_total, consumed_total,
    mtx,                                \* owner of rb->mtx: <<>> when free
    not_empty, not_full,                \* threads blocked in pthread_cond_wait
    g_stop_flag,                        \* set by the SIGINT handler
    N, i,                               \* main: consumer count, loop index
    mpc, wpc, ppc, cpc,                 \* position of main, watcher, producer, consumers
    value,                              \* producer_main: next value
    cap,                                \* model bound on value, fixed for a run
    v,                                  \* consumer_main: the local v of each consumer's current turn
    putLog, takeLog,                    \* history: values enqueued, values dequeued, in order
    kAtShutdown,                        \* history: count when shutdown went 0 -> 1 (-1 before)
    takesAfter,                         \* history: dequeues begun while shutdown was 1
    initiated,                          \* history: number of "[Signal] ... nedstangning" lines
    putsAfterStop,                      \* history: enqueues completed after g_stop_flag was raised
    summary,                            \* the three numbers of the final summary, <<>> before
    failed,                             \* main: which start-up step failed, "none" otherwise
    exitStatus                          \* "running", "EXIT_SUCCESS", "EXIT_FAILURE"

rbvars == <<size, data, head, tail, count, shutdown, produced_total, consumed_total>>
capvars == <<cap>>
syncvars == <<mtx, not_empty, not_full>>
mainvars == <<N, i, mpc, summary, exitStatus, failed>>
histvars == <<putLog, takeLog, kAtShutdown, takesAfter, initiated, putsAfterStop>>
vars == <<rbvars, capvars, syncvars, g_stop_flag, mainvars, wpc, ppc, cpc, value, v, histvars>>

(* ---- thread identities ---- *)
Free == <<>>
MainT == <<"main">>
WatcherT == <<"watcher">>
ProdT == <<"producer">>
ConsT(c) == <<"consumer", c>>

Consumers == 1..(IF MaxN >= FairMaxN THEN MaxN ELSE FairMaxN)

(* ---- pthread primitives ---- *)

\* Faulty variant of BroadcastBoth: pthread_cond_signal used in place of the broadcasts.
SignalBoth ==
    /\ not_empty' \in (IF not_empty = {} THEN {{}} ELSE {not_empty \ {t} : t \in not_empty})
    /\ not_full' = {}

\* pthread_cond_broadcast on both conditions: nobody stays blocked.
BroadcastBoth ==
    /\ not_empty' = {}
    /\ not_full' = {}

\* pthread_cond_signal: one of the blocked threads, if any, is unblocked.
Signal(waiters) ==
    IF waiters = {} THEN {{}} ELSE {waiters \ {t} : t \in waiters}

\* The transition shutdown 0 -> 1 as seen by the history variables.
NoteShutdown ==
    kAtShutdown' = IF shutdown = 0 THEN count ELSE kAtShutdown

(* ---- ring buffer ---- *)

rb_init(sz) ==
    /\ size = sz
    /\ data = [k \in 0..(sz - 1) |-> 0]
    /\ head = 0
    /\ tail = 0
    /\ count = 0
    /\ shutdown = 0
    /\ produced_total = 0
    /\ consumed_total = 0
    /\ mtx = Free
    /\ not_empty = {}
    /\ not_full = {}

\* Faulty variant of rb_enqueue_store: tail advanced without the modulo.
rb_enqueue_store_nowrap(val) ==
    /\ data' = [data EXCEPT ![tail] = val]
    /\ tail' = tail + 1

\* rb_enqueue, statement by statement: lines 107-108, line 109, line 110
rb_enqueue_store(val) ==
    /\ data' = [data EXCEPT ![tail] = val]
    /\ tail' = (tail + 1) % size

rb_enqueue_count == count' = count + 1

rb_enqueue_total == produced_total' = produced_total + 1

\* Faulty variant of rb_dequeue_load: head is not advanced.
rb_dequeue_load_stuck(c) ==
    /\ v' = [v EXCEPT ![c] = data[head]]
    /\ head' = head

\* Faulty variant of rb_dequeue_load: the newest item is handed out instead of the oldest.
rb_dequeue_load_newest(c) ==
    /\ v' = [v EXCEPT ![c] = data[(head + count - 1) % size]]
    /\ head' = (head + 1) % size

\* Faulty variant of rb_dequeue_total: the statistic is not updated.
rb_dequeue_total_skipped == consumed_total' = consumed_total

\* rb_dequeue, statement by statement: lines 115-116, line 117, line 118
rb_dequeue_load(c) ==
    /\ v' = [v EXCEPT ![c] = data[head]]
    /\ head' = (head + 1) % size

rb_dequeue_count == count' = count - 1

rb_dequeue_total == consumed_total' = consumed_total + 1

(* ---- SIGINT ---- *)

handle_sigint ==
    /\ exitStatus = "running"
    /\ g_stop_flag = 0
    /\ g_stop_flag' = 1
    /\ UNCHANGED <<capvars, rbvars, syncvars, mainvars, wpc, ppc, cpc, value, v, histvars>>

(* ---- shutdown_watcher ---- *)

\* Faulty variant of W_Poll: the watcher does not wait for g_stop_flag (lines 68-71 missing).
W_Poll_noWait ==
    /\ wpc = "w_poll"
    /\ wpc' = "w_lock"
    /\ UNCHANGED <<capvars, rbvars, syncvars, g_stop_flag, mainvars, ppc, cpc, value, v, histvars>>

\* lines 68-71
W_Poll ==
    /\ wpc = "w_poll"
    /\ g_stop_flag = 1
    /\ wpc' = "w_lock"
    /\ UNCHANGED <<capvars, rbvars, syncvars, g_stop_flag, mainvars, ppc, cpc, value, v, histvars>>

W_Lock ==
    /\ wpc = "w_lock"
    /\ mtx = Free
    /\ mtx' = WatcherT
    /\ wpc' = "w_cs"
    /\ UNCHANGED <<capvars, rbvars, not_empty, not_full, g_stop_flag, mainvars, ppc, cpc, value, v, histvars>>

\* Faulty variant of W_Trigger: the test of line 73 is missing, the line is
\* printed and the broadcasts are made whatever shutdown was.
W_Trigger_unguarded ==
    /\ wpc = "w_cs"
    /\ shutdown' = 1
    /\ initiated' = initiated + 1
    /\ NoteShutdown
    /\ BroadcastBoth
    /\ mtx' = Free
    /\ wpc' = "w_done"
    /\ UNCHANGED <<capvars, size, data, head, tail, count, produced_total, consumed_total,
                   g_stop_flag, mainvars, ppc, cpc, value, v, putLog, takeLog, takesAfter, putsAfterStop>>

\* Faulty variant of W_Trigger: the watcher flips shutdown instead of setting it.
W_Trigger_toggle ==
    /\ wpc = "w_cs"
    /\ shutdown' = 1 - shutdown
    /\ initiated' = IF shutdown = 0 THEN initiated + 1 ELSE initiated
    /\ NoteShutdown
    /\ BroadcastBoth
    /\ mtx' = Free
    /\ wpc' = "w_done"
    /\ UNCHANGED <<capvars, size, data, head, tail, count, produced_total, consumed_total,
                   g_stop_flag, mainvars, ppc, cpc, value, v, putLog, takeLog, takesAfter, putsAfterStop>>

\* lines 72-79
W_Trigger ==
    /\ wpc = "w_cs"
    /\ IF shutdown = 0
       THEN /\ shutdown' = 1
            /\ initiated' = initiated + 1
            /\ NoteShutdown
            /\ BroadcastBoth
       ELSE UNCHANGED <<shutdown, initiated, kAtShutdown, not_empty, not_full>>
    /\ mtx' = Free
    /\ wpc' = "w_done"
    /\ UNCHANGED <<capvars, size, data, head, tail, count, produced_total, consumed_total,
                   g_stop_flag, mainvars, ppc, cpc, value, v, putLog, takeLog, takesAfter, putsAfterStop>>

shutdown_watcher == W_Poll \/ W_Lock \/ W_Trigger

(* ---- producer_main ---- *)

\* The value counter is capped for model checking: past the cap the producer
\* stays in sleep_seconds (line 139) until a stop is requested.
ProducerAwake == value <= cap \/ shutdown = 1

\* Faulty variant of P_Top: the producer does not test g_stop_flag (lines 130-137 missing).
P_Top_noFlagTest ==
    /\ ppc = "p_top"
    /\ ProducerAwake
    /\ ppc' = "p_lock"
    /\ UNCHANGED <<capvars, rbvars, syncvars, g_stop_flag, mainvars, wpc, cpc, value, v, histvars>>

\* line 130: the test of g_stop_flag at the top of the loop, then the sleep
P_Top ==
    /\ ppc = "p_top"
    /\ IF g_stop_flag = 1
       THEN ppc' = "p_stop_lock"
       ELSE /\ ProducerAwake
            /\ ppc' = "p_lock"
    /\ UNCHANGED <<capvars, rbvars, syncvars, g_stop_flag, mainvars, wpc, cpc, value, v, histvars>>

\* line 131
P_StopLock ==
    /\ ppc = "p_stop_lock"
    /\ mtx = Free
    /\ mtx' = ProdT
    /\ ppc' = "p_stop_cs"
    /\ UNCHANGED <<capvars, rbvars, not_empty, not_full, g_stop_flag, mainvars, wpc, cpc, value, v, histvars>>

\* lines 132-136
P_StopTrigger ==
    /\ ppc = "p_stop_cs"
    /\ shutdown' = 1
    /\ NoteShutdown
    /\ BroadcastBoth
    /\ mtx' = Free
    /\ ppc' = "p_done"
    /\ UNCHANGED <<capvars, size, data, head, tail, count, produced_total, consumed_total,
                   g_stop_flag, mainvars, wpc, cpc, value, v,
                   putLog, takeLog, takesAfter, initiated, putsAfterStop>>

\* Faulty variant of P_Lock: pthread_mutex_lock of line 141 is missing.
P_Lock_noLock ==
    /\ ppc = "p_lock"
    /\ mtx' = mtx
    /\ ppc' = "p_chk"
    /\ UNCHANGED <<capvars, rbvars, not_empty, not_full, g_stop_flag, mainvars, wpc, cpc, value, v, histvars>>

\* line 141
P_Lock ==
    /\ ppc = "p_lock"
    /\ mtx = Free
    /\ mtx' = ProdT
    /\ ppc' = "p_chk"
    /\ UNCHANGED <<capvars, rbvars, not_empty, not_full, g_stop_flag, mainvars, wpc, cpc, value, v, histvars>>

\* line 142
P_Check ==
    /\ ppc = "p_chk"
    /\ IF shutdown = 1
       THEN /\ mtx' = Free
            /\ ppc' = "p_done"
       ELSE /\ mtx' = mtx
            /\ ppc' = "p_while"
    /\ UNCHANGED <<capvars, rbvars, not_empty, not_full, g_stop_flag, mainvars, wpc, cpc, value, v, histvars>>

\* Faulty variant of P_While: shutdown is not tested again after the wait loop (line 147).
P_While_noRecheck ==
    /\ ppc = "p_while"
    /\ IF count = size /\ shutdown = 0
       THEN /\ not_full' = not_full \cup {ProdT}
            /\ mtx' = Free
            /\ ppc' = "p_wait"
       ELSE /\ mtx' = mtx
            /\ ppc' = "p_enq"
            /\ not_full' = not_full
    /\ UNCHANGED <<capvars, rbvars, not_empty, g_stop_flag, mainvars, wpc, cpc, value, v, histvars>>

\* Faulty variant of P_While: the wait loop of lines 144-146 is missing.
P_While_noWait ==
    /\ ppc = "p_while"
    /\ IF shutdown = 1
       THEN /\ mtx' = Free
            /\ ppc' = "p_done"
       ELSE /\ mtx' = mtx
            /\ ppc' = "p_enq"
    /\ UNCHANGED <<capvars, rbvars, not_empty, not_full, g_stop_flag, mainvars, wpc, cpc, value, v, histvars>>

\* lines 144-147: the wait loop and the test after it
P_While ==
    /\ ppc = "p_while"
    /\ IF count = size /\ shutdown = 0
       THEN /\ not_full' = not_full \cup {ProdT}
            /\ mtx' = Free
            /\ ppc' = "p_wait"
       ELSE IF shutdown = 1
            THEN /\ mtx' = Free
                 /\ ppc' = "p_done"
                 /\ not_full' = not_full
            ELSE /\ mtx' = mtx
                 /\ ppc' = "p_enq"
                 /\ not_full' = not_full
    /\ UNCHANGED <<capvars, rbvars, not_empty, g_stop_flag, mainvars, wpc, cpc, value, v, histvars>>

\* line 145: pthread_cond_wait returns once unblocked and the mutex is re-acquired
P_Wake ==
    /\ ppc = "p_wait"
    /\ ProdT \notin not_full
    /\ mtx = Free
    /\ mtx' = ProdT
    /\ ppc' = "p_while"
    /\ UNCHANGED <<capvars, rbvars, not_empty, not_full, g_stop_flag, mainvars, wpc, cpc, value, v, histvars>>

\* line 149, rb_enqueue lines 107-108
P_EnqStore ==
    /\ ppc = "p_enq"
    /\ rb_enqueue_store(value)
    /\ putLog' = Append(putLog, value)
    /\ ppc' = "p_enq_count"
    /\ UNCHANGED <<capvars, size, head, count, shutdown, produced_total, consumed_total, syncvars,
                   g_stop_flag, mainvars, wpc, cpc, value, v,
                   takeLog, kAtShutdown, takesAfter, initiated, putsAfterStop>>

\* rb_enqueue line 109
P_EnqCount ==
    /\ ppc = "p_enq_count"
    /\ rb_enqueue_count
    /\ ppc' = "p_enq_total"
    /\ UNCHANGED <<capvars, size, data, head, tail, shutdown, produced_total, consumed_total, syncvars,
                   g_stop_flag, mainvars, wpc, cpc, value, v, histvars>>

\* Faulty variant of P_EnqTotal: value++ of line 151 is missing.
P_EnqTotal_noIncrement ==
    /\ ppc = "p_enq_total"
    /\ rb_enqueue_total
    /\ value' = value
    /\ putsAfterStop' = IF g_stop_flag = 1 THEN putsAfterStop + 1 ELSE putsAfterStop
    /\ ppc' = "p_sig"
    /\ UNCHANGED <<capvars, size, data, head, tail, count, shutdown, consumed_total, syncvars,
                   g_stop_flag, mainvars, wpc, cpc, v,
                   putLog, takeLog, kAtShutdown, takesAfter, initiated>>

\* rb_enqueue line 110, then lines 150-151
P_EnqTotal ==
    /\ ppc = "p_enq_total"
    /\ rb_enqueue_total
    /\ value' = value + 1
    /\ putsAfterStop' = IF g_stop_flag = 1 THEN putsAfterStop + 1 ELSE putsAfterStop
    /\ ppc' = "p_sig"
    /\ UNCHANGED <<capvars, size, data, head, tail, count, shutdown, consumed_total, syncvars,
                   g_stop_flag, mainvars, wpc, cpc, v,
                   putLog, takeLog, kAtShutdown, takesAfter, initiated>>

\* Faulty variant of P_Signal: the mutex is not released (line 154 missing).
P_Signal_noUnlock ==
    /\ ppc = "p_sig"
    /\ not_empty' \in Signal(not_empty)
    /\ mtx' = mtx
    /\ ppc' = "p_top"
    /\ UNCHANGED <<capvars, rbvars, not_full, g_stop_flag, mainvars, wpc, cpc, value, v, histvars>>

\* Faulty variant of P_Signal: pthread_cond_signal of line 153 is missing.
P_Signal_noSignal ==
    /\ ppc = "p_sig"
    /\ not_empty' = not_empty
    /\ mtx' = Free
    /\ ppc' = "p_top"
    /\ UNCHANGED <<capvars, rbvars, not_full, g_stop_flag, mainvars, wpc, cpc, value, v, histvars>>

\* lines 153-154
P_Signal ==
    /\ ppc = "p_sig"
    /\ not_empty' \in Signal(not_empty)
    /\ mtx' = Free
    /\ ppc' = "p_top"
    /\ UNCHANGED <<capvars, rbvars, not_full, g_stop_flag, mainvars, wpc, cpc, value, v, histvars>>

producer_main ==
    \/ P_Top \/ P_StopLock \/ P_StopTrigger
    \/ P_Lock \/ P_Check \/ P_While \/ P_Wake
    \/ P_EnqStore \/ P_EnqCount \/ P_EnqTotal \/ P_Signal

(* ---- consumer_main ---- *)

\* line 167
C_Lock(c) ==
    /\ cpc[c] = "c_lock"
    /\ mtx = Free
    /\ mtx' = ConsT(c)
    /\ cpc' = [cpc EXCEPT ![c] = "c_while"]
    /\ UNCHANGED <<capvars, rbvars, not_empty, not_full, g_stop_flag, mainvars, wpc, ppc, value, v, histvars>>

\* Faulty variant of C_While: the pthread_cond_wait of line 177 is missing.
C_While_noWait(c) ==
    /\ cpc[c] = "c_while"
    /\ IF count = 0 /\ shutdown = 0 /\ g_stop_flag = 1
       THEN /\ shutdown' = 1
            /\ NoteShutdown
            /\ BroadcastBoth
       ELSE UNCHANGED <<shutdown, kAtShutdown, not_empty, not_full>>
    /\ mtx' = mtx
    /\ cpc' = [cpc EXCEPT ![c] = "c_chk"]
    /\ UNCHANGED <<capvars, size, data, head, tail, count, produced_total, consumed_total,
                   g_stop_flag, mainvars, wpc, ppc, value, v,
                   putLog, takeLog, takesAfter, initiated, putsAfterStop>>

\* lines 169-178: the wait loop, with the consumer's own test of g_stop_flag
C_While(c) ==
    /\ cpc[c] = "c_while"
    /\ IF count = 0 /\ shutdown = 0
       THEN IF g_stop_flag = 1
            THEN /\ shutdown' = 1
                 /\ NoteShutdown
                 /\ BroadcastBoth
                 /\ mtx' = mtx
                 /\ cpc' = [cpc EXCEPT ![c] = "c_chk"]
            ELSE /\ not_empty' = not_empty \cup {ConsT(c)}
                 /\ mtx' = Free
                 /\ cpc' = [cpc EXCEPT ![c] = "c_wait"]
                 /\ UNCHANGED <<shutdown, kAtShutdown, not_full>>
       ELSE /\ cpc' = [cpc EXCEPT ![c] = "c_chk"]
            /\ UNCHANGED <<shutdown, kAtShutdown, syncvars>>
    /\ UNCHANGED <<capvars, size, data, head, tail, count, produced_total, consumed_total,
                   g_stop_flag, mainvars, wpc, ppc, value, v,
                   putLog, takeLog, takesAfter, initiated, putsAfterStop>>

\* line 177: pthread_cond_wait returns once unblocked and the mutex is re-acquired
C_Wake(c) ==
    /\ cpc[c] = "c_wait"
    /\ ConsT(c) \notin not_empty
    /\ mtx = Free
    /\ mtx' = ConsT(c)
    /\ cpc' = [cpc EXCEPT ![c] = "c_while"]
    /\ UNCHANGED <<capvars, rbvars, not_empty, not_full, g_stop_flag, mainvars, wpc, ppc, value, v, histvars>>

\* Faulty variant of C_Check: the consumer leaves on shutdown without looking at count.
C_Check_nodrain(c) ==
    /\ cpc[c] = "c_chk"
    /\ IF shutdown = 1
       THEN /\ mtx' = Free
            /\ cpc' = [cpc EXCEPT ![c] = "c_done"]
       ELSE /\ mtx' = mtx
            /\ cpc' = [cpc EXCEPT ![c] = "c_deq"]
    /\ UNCHANGED <<capvars, rbvars, not_empty, not_full, g_stop_flag, mainvars, wpc, ppc, value, v, histvars>>

\* Faulty variant of C_Check: "or" in place of "and" in the test of line 180.
C_Check_orEmpty(c) ==
    /\ cpc[c] = "c_chk"
    /\ IF shutdown = 1 \/ count = 0
       THEN /\ mtx' = Free
            /\ cpc' = [cpc EXCEPT ![c] = "c_done"]
       ELSE /\ mtx' = mtx
            /\ cpc' = [cpc EXCEPT ![c] = "c_deq"]
    /\ UNCHANGED <<capvars, rbvars, not_empty, not_full, g_stop_flag, mainvars, wpc, ppc, value, v, histvars>>

\* lines 180-183
C_Check(c) ==
    /\ cpc[c] = "c_chk"
    /\ IF shutdown = 1 /\ count = 0
       THEN /\ mtx' = Free
            /\ cpc' = [cpc EXCEPT ![c] = "c_done"]
       ELSE /\ mtx' = mtx
            /\ cpc' = [cpc EXCEPT ![c] = "c_deq"]
    /\ UNCHANGED <<capvars, rbvars, not_empty, not_full, g_stop_flag, mainvars, wpc, ppc, value, v, histvars>>

\* lines 185-186, rb_dequeue lines 115-116
C_DeqLoad(c) ==
    /\ cpc[c] = "c_deq"
    /\ rb_dequeue_load(c)
    /\ takeLog' = Append(takeLog, v'[c])
    /\ takesAfter' = IF shutdown = 1 THEN takesAfter + 1 ELSE takesAfter
    /\ cpc' = [cpc EXCEPT ![c] = "c_deq_count"]
    /\ UNCHANGED <<capvars, size, data, tail, count, shutdown, produced_total, consumed_total, syncvars,
                   g_stop_flag, mainvars, wpc, ppc, value,
                   putLog, kAtShutdown, initiated, putsAfterStop>>

\* rb_dequeue line 117
C_DeqCount(c) ==
    /\ cpc[c] = "c_deq_count"
    /\ rb_dequeue_count
    /\ cpc' = [cpc EXCEPT ![c] = "c_deq_total"]
    /\ UNCHANGED <<capvars, size, data, head, tail, shutdown, produced_total, consumed_total, syncvars,
                   g_stop_flag, mainvars, wpc, ppc, value, v, histvars>>

\* rb_dequeue line 118, then line 187
C_DeqTotal(c) ==
    /\ cpc[c] = "c_deq_total"
    /\ rb_dequeue_total
    /\ cpc' = [cpc EXCEPT ![c] = "c_sig"]
    /\ UNCHANGED <<capvars, size, data, head, tail, count, shutdown, produced_total, syncvars,
                   g_stop_flag, mainvars, wpc, ppc, value, v, histvars>>

\* lines 188-192; v goes out of scope at the end of the turn
C_Signal(c) ==
    /\ cpc[c] = "c_sig"
    /\ not_full' \in Signal(not_full)
    /\ mtx' = Free
    /\ v' = [v EXCEPT ![c] = 0]
    /\ cpc' = [cpc EXCEPT ![c] = "c_lock"]
    /\ UNCHANGED <<capvars, rbvars, not_empty, g_stop_flag, mainvars, wpc, ppc, value, histvars>>

consumer_main(c) ==
    \/ C_Lock(c) \/ C_While(c) \/ C_Wake(c) \/ C_Check(c)
    \/ C_DeqLoad(c) \/ C_DeqCount(c) \/ C_DeqTotal(c) \/ C_Signal(c)

\* POSIX allows pthread_cond_wait to return without a signal.
SpuriousWakeup ==
    /\ \/ /\ not_empty # {}
          /\ \E t \in not_empty : not_empty' = not_empty \ {t}
          /\ not_full' = not_full
       \/ /\ not_full # {}
          /\ not_full' = {}
          /\ not_empty' = not_empty
    /\ UNCHANGED <<capvars, rbvars, mtx, g_stop_flag, mainvars, wpc, ppc, cpc, value, v, histvars>>

(* ---- main ---- *)

\* lines 221-226: pthread_create of the watcher may fail
M_CreateWatcher ==
    /\ mpc = "m_watcher"
    /\ \/ /\ wpc' = "w_poll"
          /\ mpc' = "m_prod"
          /\ UNCHANGED exitStatus
       \/ /\ wpc' = wpc
          /\ mpc' = "m_done"
          /\ exitStatus' = "EXIT_FAILURE"
    /\ UNCHANGED <<capvars, rbvars, syncvars, g_stop_flag, N, i, summary, failed, ppc, cpc, value, v, histvars>>

\* lines 229-232: pthread_create of the producer may fail
M_CreateProducer ==
    /\ mpc = "m_prod"
    /\ \/ /\ ppc' = "p_top"
          /\ mpc' = "m_alloc"
          /\ failed' = failed
       \/ /\ ppc' = ppc
          /\ mpc' = "m_fail_lock"
          /\ failed' = "producer"
    /\ UNCHANGED <<capvars, rbvars, syncvars, g_stop_flag, N, i, summary, exitStatus, wpc, cpc, value, v, histvars>>

\* lines 244-247: malloc of the thread handles may fail
M_Alloc ==
    /\ mpc = "m_alloc"
    /\ \/ /\ mpc' = "m_cons"
          /\ failed' = failed
       \/ /\ mpc' = "m_fail_lock"
          /\ failed' = "malloc"
    /\ UNCHANGED <<capvars, rbvars, syncvars, g_stop_flag, N, i, summary, exitStatus, wpc, ppc, cpc, value, v, histvars>>

\* lines 260-265: one turn of the loop creating consumer i+1, which may fail
M_CreateConsumer ==
    /\ mpc = "m_cons"
    /\ IF i < N
       THEN \/ /\ cpc' = [cpc EXCEPT ![i + 1] = "c_lock"]
               /\ i' = i + 1
               /\ UNCHANGED <<mpc, failed>>
            \/ /\ mpc' = "m_fail_lock"
               /\ failed' = "consumer"
               /\ UNCHANGED <<cpc, i>>
       ELSE /\ mpc' = "m_join"
            /\ UNCHANGED <<cpc, i, failed>>
    /\ UNCHANGED <<capvars, rbvars, syncvars, g_stop_flag, N, summary, exitStatus, wpc, ppc, value, v, histvars>>

\* lines 233, 248, 266
M_FailLock ==
    /\ mpc = "m_fail_lock"
    /\ mtx = Free
    /\ mtx' = MainT
    /\ mpc' = "m_fail_cs"
    /\ UNCHANGED <<capvars, rbvars, not_empty, not_full, g_stop_flag, N, i, summary, exitStatus, failed,
                   wpc, ppc, cpc, value, v, histvars>>

\* lines 234-237, 249-252, 267-272
M_FailTrigger ==
    /\ mpc = "m_fail_cs"
    /\ shutdown' = 1
    /\ NoteShutdown
    /\ BroadcastBoth
    /\ mtx' = Free
    /\ N' = IF failed = "consumer" THEN i ELSE N
    /\ mpc' = "m_join"
    /\ UNCHANGED <<capvars, size, data, head, tail, count, produced_total, consumed_total,
                   g_stop_flag, i, summary, exitStatus, failed, wpc, ppc, cpc, value, v,
                   putLog, takeLog, takesAfter, initiated, putsAfterStop>>

\* Faulty variant of Joined: the consumers are not joined.
Joined_noConsumers ==
    /\ wpc = "w_done"
    /\ failed # "producer" => ppc = "p_done"

\* The threads main joins before it goes on have all returned:
\* line 238 (producer failed), lines 253-254 (malloc failed), lines 277-279.
Joined ==
    /\ wpc = "w_done"
    /\ failed # "producer" => ppc = "p_done"
    /\ failed \notin {"producer", "malloc"} => \A c \in 1..N : cpc[c] = "c_done"

\* lines 238-240, 253-257, 277-279
M_Join ==
    /\ mpc = "m_join"
    /\ Joined
    /\ IF failed \in {"producer", "malloc"}
       THEN /\ mpc' = "m_done"
            /\ exitStatus' = "EXIT_FAILURE"
       ELSE /\ mpc' = "m_summary"
            /\ exitStatus' = exitStatus
    /\ UNCHANGED <<capvars, rbvars, syncvars, g_stop_flag, N, i, summary, failed, wpc, ppc, cpc, value, v, histvars>>

\* lines 282-290
M_Summary ==
    /\ mpc = "m_summary"
    /\ summary' = <<produced_total, consumed_total, count>>
    /\ exitStatus' = "EXIT_SUCCESS"
    /\ mpc' = "m_done"
    /\ UNCHANGED <<capvars, rbvars, syncvars, g_stop_flag, N, i, failed, wpc, ppc, cpc, value, v, histvars>>

main ==
    \/ M_CreateWatcher \/ M_CreateProducer \/ M_Alloc \/ M_CreateConsumer
    \/ M_FailLock \/ M_FailTrigger \/ M_Join \/ M_Summary

(* ---- the program ---- *)

\* State at line 219: arguments validated, handler installed, rb_init done.
InitWith(n, sz, mv) ==
    /\ rb_init(sz)
    /\ cap = mv
    /\ g_stop_flag = 0
    /\ N = n
    /\ i = 0
    /\ mpc = "m_watcher"
    /\ wpc = "w_none"
    /\ ppc = "p_none"
    /\ cpc = [c \in Consumers |-> "c_none"]
    /\ value = 1
    /\ v = [c \in Consumers |-> 0]
    /\ putLog = <<>>
    /\ takeLog = <<>>
    /\ kAtShutdown = -1
    /\ takesAfter = 0
    /\ initiated = 0
    /\ putsAfterStop = 0
    /\ summary = <<>>
    /\ exitStatus = "running"
    /\ failed = "none"

Init == \E n \in 1..MaxN, sz \in 1..MaxSize : InitWith(n, sz, MaxValue)

FairInit == \E n \in 1..FairMaxN, sh \in FairShapes : InitWith(n, sh[1], sh[2])

\* Scenario C: capacity 4, the producer has the values 1..5 to enqueue.
ScenarioC == <<4, 5>>

ScenarioCInit == \E n \in 1..MaxN : InitWith(n, ScenarioC[1], ScenarioC[2])

Next ==
    \/ handle_sigint
    \/ shutdown_watcher
    \/ producer_main
    \/ \E c \in Consumers : consumer_main(c)
    \/ SpuriousWakeup
    \/ main

Spec == Init /\ [][Next]_vars

ScenarioCSpec == ScenarioCInit /\ [][Next]_vars

\* Fair scheduling: a thread that can take a step again and again eventually
\* takes it. For a thread in pthread_mutex_lock, or re-acquiring the mutex inside
\* pthread_cond_wait, this says it gets the mutex if the mutex is free again and
\* again; elsewhere a thread's step stays possible until taken.
\* SIGINT and spurious wake-ups are not owed to anybody.
FairSpec ==
    /\ FairInit /\ [][Next]_vars
    /\ SF_vars(main)
    /\ SF_vars(shutdown_watcher)
    /\ SF_vars(producer_main)
    /\ \A c \in Consumers : SF_vars(consumer_main(c))

(* ======================= properties ======================= *)

\* Some thread is between the first and the last statement of rb_enqueue or rb_dequeue.
MidOperation ==
    \/ ppc \in {"p_enq_count", "p_enq_total"}
    \/ \E c \in Consumers : cpc[c] \in {"c_deq_count", "c_deq_total"}

\* The thread owning the mutex is at the statement that follows its acquisition.
JustAcquired ==
    \/ mtx = WatcherT /\ wpc = "w_cs"
    \/ mtx = MainT /\ mpc = "m_fail_cs"
    \/ mtx = ProdT /\ ppc \in {"p_stop_cs", "p_chk", "p_while"}
    \/ \E c \in Consumers : mtx = ConsT(c) /\ cpc[c] = "c_while"

Started == {c \in Consumers : cpc[c] # "c_none"}

\* main will start no further thread, and every thread it started has returned
\* from producer_main or consumer_main.
AllTasksStopped ==
    /\ mpc \in {"m_join", "m_summary", "m_done"}
    /\ ppc \in {"p_none", "p_done"}
    /\ \A c \in Consumers : cpc[c] \in {"c_none", "c_done"}

BagOfSeq(q) ==
    [x \in {q[k] : k \in DOMAIN q} |-> Cardinality({k \in DOMAIN q : q[k] = x})]

IsPrefix(p, q) ==
    /\ Len(p) <= Len(q)
    /\ \A k \in 1..Len(p) : p[k] = q[k]

StrictlyIncreasing(q) ==
    \A j, k \in DOMAIN q : j < k => q[j] < q[k]

\* C1: whenever no thread is inside rb_enqueue or rb_dequeue, 0 <= count <= size,
\* head and tail lie in [0, size) and tail = (head + count) mod size, for every
\* capacity, every number of consumers and every interleaving.
C1_RingInvariant ==
    ~MidOperation =>
        /\ 0 <= count /\ count <= size
        /\ head \in 0..(size - 1)
        /\ tail \in 0..(size - 1)
        /\ tail = (head + count) % size

\* C1 witness: a full buffer of capacity above one whose indices have wrapped.
C1_Witness ==
    /\ ~MidOperation
    /\ size > 1
    /\ count = size
    /\ head > 0
    /\ Len(putLog) > size

\* C2: whenever the mutex is free or has just been acquired,
\* produced_total - consumed_total = count, produced_total is the number of
\* puts made and consumed_total is the number of takes made.
C2_TotalsInvariant ==
    (mtx = Free \/ JustAcquired) =>
        /\ produced_total - consumed_total = count
        /\ produced_total = Len(putLog)
        /\ consumed_total = Len(takeLog)

\* C2 witness: the mutex is free after several puts and takes, items still buffered.
C2_Witness ==
    /\ mtx = Free
    /\ consumed_total >= 2
    /\ produced_total > consumed_total

\* C3: once every task has stopped in a run ended by shutdown with at least one
\* consumer started, the values dequeued are, as a multiset, the values enqueued.
C3_NoLossNoDuplicate ==
    (AllTasksStopped /\ shutdown = 1 /\ Started # {}) =>
        BagOfSeq(takeLog) = BagOfSeq(putLog)

\* C3 witness: a finished run of two consumers in which items were still buffered
\* when shutdown was set.
C3_Witness ==
    /\ AllTasksStopped
    /\ shutdown = 1
    /\ Cardinality(Started) = 2
    /\ kAtShutdown >= 2
    /\ Len(putLog) >= 3

\* C4: the values dequeued, in the order of the dequeues, are a prefix of the
\* values enqueued and strictly increasing, so every consumer's own receipts,
\* a subsequence of them, are strictly increasing too.
C4_Fifo ==
    /\ IsPrefix(takeLog, putLog)
    /\ StrictlyIncreasing(takeLog)

\* C4 witness: two consumers run and a second or later dequeue happens while
\* more than one item is buffered.
C4_Witness ==
    /\ Cardinality(Started) = 2
    /\ Len(takeLog) >= 2
    /\ \E c \in Consumers : cpc[c] = "c_deq_count" /\ count >= 2

\* C5: in a state where shutdown is 1 no step stores into data, moves tail,
\* raises count or changes produced_total.
C5_NoPutAfterShutdown ==
    [][shutdown = 1 =>
          /\ data' = data
          /\ tail' = tail
          /\ count' <= count
          /\ produced_total' = produced_total]_vars

\* C5 witness: shutdown was set while the producer was inside pthread_cond_wait
\* on a full buffer.
C5_Witness ==
    /\ shutdown = 1
    /\ ppc = "p_wait"
    /\ count = size

\* C6: a consumer leaves its loop only in a state with shutdown = 1 and count = 0,
\* and a consumer at line 180 that finds count > 0 goes on to dequeue, shutdown or not.
C6_DrainBeforeStop ==
    [][\A c \in Consumers :
          /\ (cpc[c] # "c_done" /\ cpc'[c] = "c_done") => (shutdown = 1 /\ count = 0)
          /\ (cpc[c] = "c_chk" /\ count > 0 /\ cpc'[c] # cpc[c]) => cpc'[c] = "c_deq"]_vars

\* C6 witness: a consumer is about to dequeue although shutdown is already 1.
C6_Witness ==
    \E c \in Consumers : cpc[c] = "c_deq" /\ shutdown = 1 /\ count > 0

\* C7: once shutdown is set, the items taken since plus the items still buffered
\* are the k items the buffer held at that moment (seen whenever no consumer is
\* inside rb_dequeue), so never more than k are taken; and when all tasks have
\* stopped with a consumer started, exactly k were taken and none is left.
C7_ExactDrain ==
    /\ (shutdown = 1 /\ ~MidOperation) => takesAfter + count = kAtShutdown
    /\ shutdown = 1 => takesAfter <= kAtShutdown
    /\ (shutdown = 1 /\ AllTasksStopped /\ Started # {}) =>
           (takesAfter = kAtShutdown /\ count = 0)

\* Scenario D at its start: shutdown found three items buffered and two
\* consumers inside pthread_cond_wait; nothing is taken yet.
C7_ScenarioDStart ==
    /\ shutdown = 1
    /\ kAtShutdown = 3
    /\ count = 3
    /\ takesAfter = 0
    /\ \A c \in 1..2 : cpc[c] = "c_wait"

\* C7 witness: shutdown found three items buffered; both consumers have
\* stopped and three items were taken since.
C7_Witness ==
    /\ kAtShutdown = 3
    /\ takesAfter = 3
    /\ Cardinality(Started) = 2
    /\ AllTasksStopped

\* C8: under fair scheduling, once shutdown is set, the producer and every
\* consumer eventually return, those inside pthread_cond_wait included.
C8_Termination ==
    (shutdown = 1) ~> AllTasksStopped

\* C8 witness: shutdown is set while the producer and a consumer are both
\* still inside pthread_cond_wait.
C8_Witness ==
    /\ shutdown = 1
    /\ ppc = "p_wait"
    /\ \E c \in Consumers : cpc[c] = "c_wait"

\* C9 as stated: under fair scheduling, once g_stop_flag is raised, shutdown
\* eventually is 1.
C9_AsStated ==
    (g_stop_flag = 1) ~> (shutdown = 1)

\* C9, amended: under fair scheduling, once g_stop_flag is raised and the
\* shutdown watcher has been started, shutdown eventually is 1.
C9_StopLeadsToShutdown ==
    (g_stop_flag = 1 /\ wpc # "w_none") ~> (shutdown = 1)

\* C9 witness: the flag is up, shutdown is not yet set, the producer is blocked
\* on the full buffer and every started consumer is inside pthread_cond_wait.
C9_Witness ==
    /\ g_stop_flag = 1
    /\ shutdown = 0
    /\ wpc # "w_none"
    /\ ppc = "p_wait" /\ ProdT \in not_full
    /\ Started # {}
    /\ \A c \in Started : cpc[c] = "c_wait"

\* C10: the summary is printed only after the watcher, the producer and every
\* started consumer have returned, and after a start-up without failure it
\* reports nothing left in the buffer and as many consumed as produced.
C10_ExitContract ==
    summary # <<>> =>
        /\ wpc = "w_done"
        /\ ppc = "p_done"
        /\ \A c \in Started : cpc[c] = "c_done"
        /\ (failed = "none" /\ N >= 1) => (summary[3] = 0 /\ summary[1] = summary[2])

\* C10 witness: the summary of a run without start-up failure that moved items.
C10_Witness ==
    /\ summary # <<>>
    /\ failed = "none"
    /\ summary[1] >= 2

\* A step that runs the code setting shutdown: the watcher's (lines 73-78), the
\* producer's (lines 132-135), main's after a failed start (lines 234-236,
\* 249-251, 267-269), or a consumer passing lines 169-175 with the flag raised.
TriggerStep ==
    \/ wpc = "w_cs" /\ wpc' = "w_done"
    \/ ppc = "p_stop_cs" /\ ppc' = "p_done"
    \/ mpc = "m_fail_cs" /\ mpc' = "m_join"
    \/ \E c \in Consumers :
          cpc[c] = "c_while" /\ count = 0 /\ g_stop_flag = 1 /\ cpc'[c] = "c_chk"

\* C11: a trigger of shutdown that runs when shutdown is already 1, whoever
\* runs it, leaves shutdown, count, head, tail, data and both totals as they
\* were, prints no further shutdown line and finds nobody left to wake.
C11_TriggerIdempotent ==
    [][(shutdown = 1 /\ TriggerStep) =>
          /\ UNCHANGED <<shutdown, count, head, tail, data, produced_total, consumed_total>>
          /\ initiated' = initiated
          /\ UNCHANGED <<not_empty, not_full>>]_vars

\* C11 witness: the watcher has run its trigger after another thread had set
\* shutdown, with items still in the buffer.
C11_Witness ==
    /\ shutdown = 1
    /\ wpc = "w_done"
    /\ initiated = 0
    /\ count > 0

\* C12: shutdown starts at 0, and no step takes it from 1 back to 0.
C12_ShutdownMonotonic ==
    /\ shutdown = 0
    /\ [][shutdown' \in {0, 1} /\ (shutdown = 1 => shutdown' = 1)]_vars

\* C12 witness: the process has exited after shutdown was set and two more
\* items were taken.
C12_Witness ==
    /\ shutdown = 1
    /\ takesAfter >= 2
    /\ exitStatus # "running"

\* C13: when pthread_create of the producer or of a consumer fails, main sets
\* shutdown, and under fair scheduling, with no SIGINT needed, the watcher, the
\* producer and the consumers started before all return, they are joined and
\* the process exits; its exit status is then EXIT_FAILURE.
C13_TaskStartFailure ==
    /\ [](failed \in {"producer", "consumer"} => exitStatus # "EXIT_SUCCESS")
    /\ (failed \in {"producer", "consumer"}) ~>
           /\ shutdown = 1
           /\ wpc = "w_done"
           /\ AllTasksStopped
           /\ exitStatus = "EXIT_FAILURE"

\* C14: the shutdown line is printed exactly once in every run in which
\* shutdown goes from 0 to 1, whichever thread sets it: never before shutdown
\* is set, never twice, and once by the time the process exits.
C14_OneEventPerShutdown ==
    /\ shutdown = 0 => initiated = 0
    /\ initiated <= 1
    /\ (shutdown = 1 /\ exitStatus # "running") => initiated = 1

\* C15 as stated (scenario C, capacity 4): the fifth store into the buffer
\* comes only after a first take; and with shutdown set after four takes, the
\* next take attempt, the fifth, returns without a value.
C15_AsStated ==
    /\ [](Len(putLog) >= 5 => Len(takeLog) >= 1)
    /\ [][\A c \in Consumers :
             (shutdown = 1 /\ Len(takeLog) = 4 /\ cpc[c] = "c_chk" /\ cpc'[c] # cpc[c])
                 => cpc'[c] = "c_done"]_vars

\* C15, amended (scenario C, capacity 4): the fifth store into the buffer comes
\* only after a first take; and with shutdown set, a take attempt returns
\* without a value exactly when every value put has been taken: the fifth
\* attempt if the fifth put was refused, the sixth if it went through.
C15_ScenarioC ==
    /\ [](Len(putLog) >= 5 => Len(takeLog) >= 1)
    /\ [][\A c \in Consumers :
             (shutdown = 1 /\ cpc[c] = "c_chk" /\ cpc'[c] # cpc[c])
                 => (cpc'[c] = "c_done" <=> Len(takeLog) = Len(putLog))]_vars

\* C15 witness: the producer was blocked with the fifth value on the full
\* buffer, four takes went by and shutdown was set before it got the mutex
\* back; a consumer's fifth take attempt has returned without a value.
C15_Witness ==
    /\ size = 4
    /\ shutdown = 1
    /\ ppc = "p_wait"
    /\ value = 5
    /\ Len(takeLog) = 4
    /\ \E c \in Consumers : cpc[c] = "c_done"

\* C16 (scenario A, capacity 1, one consumer): the n-th take comes after the
\* n-th put and before the (n+1)-th put, so puts and takes alternate starting
\* with a put, and count never exceeds 1.
C16_ScenarioA ==
    (size = 1 /\ N = 1) =>
        /\ Len(takeLog) <= Len(putLog)
        /\ Len(putLog) <= Len(takeLog) + 1
        /\ count <= 1

\* C16 witness: capacity 1, one consumer, no start-up failure; three puts and
\* three takes have alternated.
C16_Witness ==
    /\ size = 1
    /\ N = 1
    /\ failed = "none"
    /\ putLog = <<1, 2, 3>>
    /\ takeLog = <<1, 2, 3>>

\* C17: the k-th value enqueued is k, and outside rb_enqueue the producer's
\* next value is the number of values enqueued plus one, also after an attempt
\* that shutdown turned away: a refused put uses up no value.
C17_ValueSequence ==
    /\ \A k \in DOMAIN putLog : putLog[k] = k
    /\ ppc \notin {"p_enq_count", "p_enq_total"} => value = Len(putLog) + 1

\* C17 witness: with no SIGINT, the producer has left after two puts because
\* main set shutdown when a consumer could not be started: its third attempt
\* was turned away at line 142 or 147.
C17_Witness ==
    /\ ppc = "p_done"
    /\ g_stop_flag = 0
    /\ failed = "consumer"
    /\ putLog = <<1, 2>>
    /\ value = 3

\* The producer and every started consumer are blocked inside
\* pthread_cond_wait and none of them has been signalled.
AllBlocked ==
    /\ ppc = "p_wait" /\ ProdT \in not_full
    /\ \A c \in Started : cpc[c] = "c_wait" /\ ConsT(c) \in not_empty

\* The producer is in the sleep of line 139 with the model's last value behind it.
ProducerIdle == ppc = "p_top" /\ ~ProducerAwake /\ g_stop_flag = 0

\* C18: while shutdown is 0 and a consumer has been started, the producer and
\* the started consumers are never all blocked in pthread_cond_wait with no
\* wake-up pending, and (unless the producer is in its sleep) main, the watcher,
\* the producer or a consumer can take a step.
C18_NoDeadlockBeforeShutdown ==
    (shutdown = 0 /\ Started # {}) =>
        /\ ~AllBlocked
        /\ ~ProducerIdle =>
               ENABLED (main \/ shutdown_watcher \/ producer_main
                           \/ \E c \in Consumers : consumer_main(c))

\* C18 witness: before shutdown and with no SIGINT, the producer is blocked on
\* the full buffer and both consumers are inside pthread_cond_wait, one of
\* them already signalled.
C18_Witness ==
    /\ shutdown = 0
    /\ g_stop_flag = 0
    /\ Cardinality(Started) = 2
    /\ ppc = "p_wait" /\ ProdT \in not_full
    /\ \A c \in Started : cpc[c] = "c_wait"
    /\ Cardinality(not_empty) = 1

Threads == {MainT, WatcherT, ProdT} \cup {ConsT(c) : c \in Consumers}

\* Thread t is at a statement that reads or writes a field of the ring buffer
\* other than main's summary: the statements between a pthread_mutex_lock (or
\* the return of pthread_cond_wait) and the next unlock or wait.
InCriticalSection(t) ==
    \/ t = WatcherT /\ wpc = "w_cs"
    \/ t = MainT /\ mpc = "m_fail_cs"
    \/ t = ProdT /\ ppc \in {"p_stop_cs", "p_chk", "p_while", "p_enq",
                             "p_enq_count", "p_enq_total", "p_sig"}
    \/ \E c \in Consumers :
          t = ConsT(c) /\ cpc[c] \in {"c_while", "c_chk", "c_deq",
                                      "c_deq_count", "c_deq_total", "c_sig"}

\* Thread t has returned from its thread function, or main from main.
HasStopped(t) ==
    \/ t = WatcherT /\ wpc = "w_done"
    \/ t = MainT /\ mpc = "m_done"
    \/ t = ProdT /\ ppc = "p_done"
    \/ \E c \in Consumers : t = ConsT(c) /\ cpc[c] = "c_done"

C20_AtMostOnePutAfterStop ==
    putsAfterStop <= 1

\* C20 witness: the producer completed one enqueue after the flag was raised
\* and then stopped, all before the watcher had taken the mutex.
C20_Witness ==
    /\ putsAfterStop = 1
    /\ ppc = "p_done"
    /\ wpc \in {"w_poll", "w_lock"}

\* No SIGINT has arrived and main has met no failure; in particular this holds
\* once all tasks are started in a run without cancellation.
Undisturbed == g_stop_flag = 0 /\ failed = "none"

\* C21 as stated: shutdown is 1 only if g_stop_flag has been raised or
\* pthread_create of the producer or of a consumer has failed; and while no
\* SIGINT has arrived and nothing has failed, shutdown is 0 and neither the
\* producer nor any consumer has returned.
C21_AsStated ==
    /\ shutdown = 1 => (g_stop_flag = 1 \/ failed \in {"producer", "consumer"})
    /\ Undisturbed =>
           /\ shutdown = 0
           /\ ppc # "p_done"
           /\ \A c \in Consumers : cpc[c] # "c_done"

\* C21, amended: shutdown is 1 only if g_stop_flag has been raised, or
\* pthread_create of the producer or of a consumer has failed, or the malloc of
\* the thread handles has failed; and while no SIGINT has arrived and nothing
\* has failed, shutdown is 0 and neither the producer nor any consumer has
\* returned.
C21_NoSpuriousShutdown ==
    /\ shutdown = 1 => (g_stop_flag = 1 \/ failed \in {"producer", "consumer", "malloc"})
    /\ Undisturbed =>
           /\ shutdown = 0
           /\ ppc # "p_done"
           /\ \A c \in Consumers : cpc[c] # "c_done"

\* C21 witness: all tasks are started, two consumers among them, no SIGINT has
\* arrived, every value has been put and taken, and main waits in its joins
\* with shutdown still 0.
C21_Witness ==
    /\ Undisturbed
    /\ mpc = "m_join"
    /\ Cardinality(Started) = 2
    /\ shutdown = 0
    /\ Len(takeLog) = cap

====
